---- MODULE Spec2Model ----
(***************************************************************************)
(* Model of module/FieldPropagation.py (fdtd_em_dataset, em_field,         *)
(* fieldPropagationLumapi) and of the stateful / numeric helpers of        *)
(* module/MetaTool.py (setResources, integrate).                           *)
(*                                                                         *)
(* A numpy array is modelled by its shape (a sequence of naturals) and a   *)
(* tag standing for its contents; the object identity of an array, which   *)
(* Python's reference semantics makes observable, is modelled by a heap.   *)
(***************************************************************************)
EXTENDS Integers, Sequences, FiniteSets, TLC

VARIABLES
    ds, dsOut,                  \* an fdtd_em_dataset object, outcome of the last call on it
    heap, field, emOut,         \* the arrays alive, an em_field object, its last call
    prop,                       \* the last call of fieldPropagationLumapi
    integ,                      \* the last pair of calls of integrate
    res                         \* the simulator's resource table around setResources

vars == <<ds, dsOut, heap, field, emOut, prop, integ, res>>

-----------------------------------------------------------------------------
(* Bounds of the model.                                                    *)

MaxLen == 2          \* longest axis vector handed to a setter
MaxParams == 4       \* cap on the length of the declared parameter list
MaxMods == 1         \* cap on the number of arrays the caller modifies in place

-----------------------------------------------------------------------------
(* numpy arrays as values.                                                 *)

Arr(shape, data) == [shape |-> shape, data |-> data]

\* np.array(None): a 0-d array
NoneArr == Arr(<<>>, 0)

\* an attribute or dictionary key that was never assigned
Unset == Arr(<<>>, -1)

IsSet(a) == a.data >= 0

Rank(a) == Len(a.shape)

\* len(a): defined for arrays of rank >= 1 only (TypeError otherwise)
HasLen(a) == Rank(a) >= 1

PyLen(a) == a.shape[1]

\* np.reshape(a, (len(a), 1)) of a 1-D array
Column(a) == Arr(<<PyLen(a), 1>>, a.data)

-----------------------------------------------------------------------------
(* Python list elements: strings and (nested) lists.                       *)

PyStr(s) == [kind |-> "str", s |-> s, items |-> <<>>]

PyList(items) == [kind |-> "list", s |-> "", items |-> items]

\* v in lst : equality with an element of lst itself (no descent into nested lists)
PyIn(v, lst) == \E i \in 1..Len(lst) : lst[i] = v

-----------------------------------------------------------------------------
(* class fdtd_em_dataset                                                   *)

\* fdtd_em_dataset.__init__
Ds_init ==
    [ parameters |-> << PyList(<<>>) >>,
      attributes |-> <<>>,
      geometry |-> "rectilinear",
      wavelength_vec |-> Unset, x_vec |-> Unset, y_vec |-> Unset, z_vec |-> Unset,
      lambda |-> Unset, f |-> Unset, x |-> Unset, y |-> Unset, z |-> Unset,
      E |-> Unset, H |-> Unset ]

\* result of a method call: the object afterwards and the exception raised, if any
Result(d, err) == [ds |-> d, err |-> err]

\* parameters[0].append(name)
AppendParam(d, name) ==
    [d EXCEPT !.parameters[1] = PyList(Append(@.items, PyStr(name)))]

\* the test guarding the registration of a parameter name (lines 31, 34)
ParamRegistered(d, name) == PyIn(PyStr(name), d.parameters)

\* the test guarding the registration of an attribute name (lines 91, 106)
AttrRegistered(d, name) == PyIn(PyStr(name), d.attributes)

RegisterParam(d, name) ==
    IF ParamRegistered(d, name) THEN d ELSE AppendParam(d, name)

RegisterAttr(d, name) ==
    IF AttrRegistered(d, name) THEN d
    ELSE [d EXCEPT !.attributes = Append(@, PyStr(name))]

\* fdtd_em_dataset.setWavelength
Ds_setWavelength(d, w) ==
    LET d1 == [d EXCEPT !.wavelength_vec = w]
    IN  IF ~HasLen(w) THEN Result(d1, "TypeError")
        ELSE LET d2 == RegisterParam([d1 EXCEPT !.lambda = Column(w)], "lambda")
                 d3 == RegisterParam([d2 EXCEPT !.f = Column(w)], "f")
             IN  Result(d3, "none")

\* fdtd_em_dataset.setRegion
Ds_setRegion(d, x, y, z) ==
    LET d1 == [d EXCEPT !.x_vec = x, !.y_vec = y, !.z_vec = z]
    IN  IF ~HasLen(x) THEN Result(d1, "TypeError")
        ELSE IF ~HasLen(y) THEN Result([d1 EXCEPT !.x = Column(x)], "TypeError")
        ELSE IF ~HasLen(z)
             THEN Result([d1 EXCEPT !.x = Column(x), !.y = Column(y)], "TypeError")
        ELSE Result([d1 EXCEPT !.x = Column(x), !.y = Column(y), !.z = Column(z)], "none")

\* fdtd_em_dataset.setX
Ds_setX(d, x) ==
    IF ~HasLen(x) THEN Result([d EXCEPT !.x_vec = x], "TypeError")
    ELSE Result([d EXCEPT !.x_vec = x, !.x = Column(x)], "none")

\* fdtd_em_dataset.setY
Ds_setY(d, y) ==
    IF ~HasLen(y) THEN Result([d EXCEPT !.y_vec = y], "TypeError")
    ELSE Result([d EXCEPT !.y_vec = y, !.y = Column(y)], "none")

\* fdtd_em_dataset.setZ
Ds_setZ(d, z) ==
    IF ~HasLen(z) THEN Result([d EXCEPT !.z_vec = z], "TypeError")
    ELSE Result([d EXCEPT !.z_vec = z, !.z = Column(z)], "none")

\* the assertion messages of the module
ShapeMismatch == "AssertionError: Unmatched data shape"

PreconditionError == "AssertionError: FDTD must be given"

\* the shape a field tensor is compared with (lines 85, 100)
ExpectedShape(x, y, z, w) == <<PyLen(x), PyLen(y), PyLen(z), PyLen(w), 3>>

\* ShapeCheck without the comparison of the shapes
ShapeCheck_noAssert(d, m) ==
    LET axes == <<d.x_vec, d.y_vec, d.z_vec, d.wavelength_vec>>
        bad == {i \in 1..4 : ~IsSet(axes[i]) \/ ~HasLen(axes[i])}
        first == CHOOSE i \in bad : \A j \in bad : i <= j
    IN  IF bad # {} THEN (IF ~IsSet(axes[first]) THEN "AttributeError" ELSE "TypeError")
        ELSE "none"

\* the exception raised while the assert statement of setE / setH is evaluated
\* (attributes are read in the order x, y, z, wavelength), "none" when it passes
ShapeCheck(d, m) ==
    LET axes == <<d.x_vec, d.y_vec, d.z_vec, d.wavelength_vec>>
        bad == {i \in 1..4 : ~IsSet(axes[i]) \/ ~HasLen(axes[i])}
        first == CHOOSE i \in bad : \A j \in bad : i <= j
    IN  IF bad # {} THEN (IF ~IsSet(axes[first]) THEN "AttributeError" ELSE "TypeError")
        ELSE IF m.shape # ExpectedShape(d.x_vec, d.y_vec, d.z_vec, d.wavelength_vec)
             THEN ShapeMismatch
        ELSE "none"

\* fdtd_em_dataset.setE
Ds_setE(d, e) ==
    IF ShapeCheck(d, e) # "none" THEN Result(d, ShapeCheck(d, e))
    ELSE Result(RegisterAttr([d EXCEPT !.E = e], "E"), "none")

\* fdtd_em_dataset.setH
Ds_setH(d, h) ==
    IF ShapeCheck(d, h) # "none" THEN Result(d, ShapeCheck(d, h))
    ELSE Result(RegisterAttr([d EXCEPT !.H = h], "H"), "none")

\* fdtd_em_dataset.getDataset: the meta block of the returned dictionary
Ds_getDataset(d) ==
    [parameters |-> d.parameters, attributes |-> d.attributes, geometry |-> d.geometry]

-----------------------------------------------------------------------------
(* Arguments a caller hands to the dataset's setters.                      *)

Axis(n) == Arr(<<n>>, 1)

AxisArgs == {Axis(n) : n \in 1..MaxLen}

\* field tensors over a single point in space, one per number of wavelengths
Tensor(n) == Arr(<<1, 1, 1, n, 3>>, 1)

TensorArgs == {Tensor(n) : n \in 1..MaxLen}

-----------------------------------------------------------------------------
(* Calls on one fdtd_em_dataset object.                                    *)

DsFrame == UNCHANGED <<heap, field, emOut, prop, integ, res>>

DsCall(op, r) ==
    /\ ds' = r.ds
    /\ dsOut' = [op |-> op, err |-> r.err]
    /\ DsFrame

DsNew == DsCall("__init__", Result(Ds_init, "none"))

DsSetWavelength ==
    /\ Len(ds.parameters[1].items) + 2 <= MaxParams
    /\ \E w \in AxisArgs : DsCall("setWavelength", Ds_setWavelength(ds, w))

DsSetRegion ==
    \E x, y, z \in AxisArgs : DsCall("setRegion", Ds_setRegion(ds, x, y, z))

DsSetX == \E x \in AxisArgs : DsCall("setX", Ds_setX(ds, x))

DsSetY == \E y \in AxisArgs : DsCall("setY", Ds_setY(ds, y))

DsSetZ == \E z \in AxisArgs : DsCall("setZ", Ds_setZ(ds, z))

DsSetE == \E e \in TensorArgs : DsCall("setE", Ds_setE(ds, e))

DsSetH == \E h \in TensorArgs : DsCall("setH", Ds_setH(ds, h))

-----------------------------------------------------------------------------
(* class em_field.  Python passes arrays by reference: an array is an      *)
(* object of the heap, the container's dictionary holds references.        *)

Keys == {"wavelength_vec", "x_vec", "y_vec", "z_vec", "e_mat", "h_mat"}

AxisKeys == {"wavelength_vec", "x_vec", "y_vec", "z_vec"}

Ref(owner, key, n) == [owner |-> owner, key |-> key, n |-> n]

\* the arrays the caller holds: one axis vector per length, one field tensor per
\* number of wavelengths
CallerAxes == {Ref("caller", "axis", n) : n \in 1..MaxLen}

CallerTensors == {Ref("caller", "tensor", n) : n \in 1..MaxLen}

CallerRefs == CallerAxes \cup CallerTensors

\* the arrays np.array(...) allocates for the container in __init__
Own(k) == Ref("em_field", k, 0)

OwnRefs == {Own(k) : k \in Keys}

\* the Python value None passed as an argument
None == Ref("caller", "None", 0)

\* np.array(v): a new array holding a copy of v's contents (np.array(None) is 0-d)
NpArray(h, r) == IF r = None THEN NoneArr ELSE h[r]

\* em_field.__init__: every argument is copied into an array of the container
Em_init(h, args) ==
    [ heap |-> [r \in DOMAIN h |-> IF r \in OwnRefs THEN NpArray(h, args[r.key]) ELSE h[r]],
      field |-> [k \in Keys |-> Own(k)] ]

\* em_field.setWavelength, setX, setY, setZ, setE, setH: the dictionary entry is
\* bound to the argument itself
Em_set(f, k, r) == [f EXCEPT ![k] = r]

Em_setWavelength(f, r) == Em_set(f, "wavelength_vec", r)

Em_setX(f, r) == Em_set(f, "x_vec", r)

Em_setY(f, r) == Em_set(f, "y_vec", r)

Em_setZ(f, r) == Em_set(f, "z_vec", r)

Em_setE(f, r) == Em_set(f, "e_mat", r)

Em_setH(f, r) == Em_set(f, "h_mat", r)

\* em_field.setRegion
Em_setRegion(f, x, y, z) == Em_setX(Em_setX(Em_setX(f, x), y), z)

\* em_field.getWavelength, getX, ... : the stored reference is returned
Em_getWavelength(f) == f["wavelength_vec"]

Em_getX(f) == f["x_vec"]

Em_getY(f) == f["y_vec"]

Em_getZ(f) == f["z_vec"]

Em_getE(f) == f["e_mat"]

Em_getH(f) == f["h_mat"]

\* em_field.toFdtdDataset, on the array values v the container refers to: the
\* first setter that raises ends the call
Em_toFdtdDataset(v) ==
    LET r1 == Ds_setWavelength(Ds_init, v["wavelength_vec"])
        r2 == Ds_setRegion(r1.ds, v["x_vec"], v["y_vec"], v["z_vec"])
        r3 == Ds_setE(r2.ds, v["e_mat"])
        r4 == Ds_setH(r3.ds, v["h_mat"])
    IN  IF r1.err # "none" THEN r1
        ELSE IF r2.err # "none" THEN r2
        ELSE IF r3.err # "none" THEN r3
        ELSE r4

\* the array values behind the container's references
Values(h, f) == [k \in Keys |-> h[f[k]]]

-----------------------------------------------------------------------------
(* Calls on one em_field object, and the caller's in-place modifications.  *)

\* contents of the caller's arrays when they are created
CallerArr(r) ==
    IF r \in CallerAxes THEN Axis(r.n) ELSE Tensor(r.n)

ArgsOf(k) == {None} \cup (IF k \in AxisKeys THEN CallerAxes ELSE CallerTensors)

\* an array of the container that no dictionary entry refers to any more is dropped
Collect(h, f) ==
    [r \in DOMAIN h |-> IF r \in OwnRefs /\ f[r.key] # r THEN Unset ELSE h[r]]

EmFrame == UNCHANGED <<ds, dsOut, prop, integ, res>>

EmOut(op, args, err, before) == [op |-> op, args |-> args, err |-> err, before |-> before]

EmCall(op, args, f, err) ==
    /\ field' = f
    /\ heap' = Collect(heap, f)
    /\ emOut' = EmOut(op, args, err, <<>>)
    /\ EmFrame

EmSetWavelength ==
    \E r \in CallerAxes : EmCall("setWavelength", <<r>>, Em_setWavelength(field, r), "none")

EmSetX == \E r \in CallerAxes : EmCall("setX", <<r>>, Em_setX(field, r), "none")

EmSetY == \E r \in CallerAxes : EmCall("setY", <<r>>, Em_setY(field, r), "none")

EmSetZ == \E r \in CallerAxes : EmCall("setZ", <<r>>, Em_setZ(field, r), "none")

EmSetRegion ==
    \E x, y, z \in CallerAxes :
        EmCall("setRegion", <<x, y, z>>, Em_setRegion(field, x, y, z), "none")

EmSetE == \E r \in CallerTensors : EmCall("setE", <<r>>, Em_setE(field, r), "none")

EmSetH == \E r \in CallerTensors : EmCall("setH", <<r>>, Em_setH(field, r), "none")

EmToFdtdDataset ==
    EmCall("toFdtdDataset", <<>>, field, Em_toFdtdDataset(Values(heap, field)).err)

\* the caller writes into one of its own arrays (a[0] = ...): same object, new
\* contents; the values the getters returned just before are remembered
CallerModify ==
    \E r \in CallerRefs :
        /\ heap[r].data = 1
        /\ Cardinality({q \in CallerRefs : heap[q].data # 1}) < MaxMods
        /\ heap' = [heap EXCEPT ![r].data = 2]
        /\ emOut' = EmOut("modify", <<r>>, "none", Values(heap, field))
        /\ UNCHANGED field
        /\ EmFrame

\* the state after em_field(**args), the caller's arrays as created
Constructed(args) ==
    LET h0 == [r \in CallerRefs \cup OwnRefs |->
                  IF r \in CallerRefs THEN CallerArr(r) ELSE Unset]
        c == Em_init(h0, args)
    IN  /\ heap = c.heap
        /\ field = c.field
        /\ emOut = EmOut("__init__", <<args["wavelength_vec"], args["x_vec"], args["y_vec"],
                                      args["z_vec"], args["e_mat"], args["h_mat"]>>,
                         "none", <<>>)

\* the parts of the state no call has touched yet
NoDataset == ds = Ds_init /\ dsOut = [op |-> "__init__", err |-> "none"]

NoPropagation == prop = [phase |-> "idle"]

NoIntegration == integ = [phase |-> "idle"]

NoResources == res = [pc |-> "idle"]

\* em_field(): every argument takes its default, None
InitField ==
    /\ Constructed([k \in Keys |-> None])
    /\ NoDataset /\ NoPropagation /\ NoIntegration /\ NoResources

\* em_field(...) with any of the arguments given
InitAlias ==
    /\ \E args \in [Keys -> {None} \cup CallerRefs] :
          /\ \A k \in Keys : args[k] \in ArgsOf(k)
          /\ Constructed(args)
    /\ NoDataset /\ NoPropagation /\ NoIntegration /\ NoResources

NextField ==
    \/ EmSetWavelength
    \/ EmSetX
    \/ EmSetY
    \/ EmSetZ
    \/ EmSetRegion
    \/ EmSetE
    \/ EmSetH
    \/ EmToFdtdDataset

SpecField == InitField /\ [][NextField]_vars

NextAlias ==
    \/ EmSetWavelength
    \/ EmSetX
    \/ EmSetY
    \/ EmSetZ
    \/ EmSetRegion
    \/ EmSetE
    \/ EmSetH
    \/ CallerModify

SpecAlias == InitAlias /\ [][NextAlias]_vars

-----------------------------------------------------------------------------
(* fieldPropagationLumapi.  The simulator (fdtd) is an external            *)
(* collaborator: it is modelled by the shape of what farfieldexact3d       *)
(* returns and by the list of the calls it has received.                   *)

MaxIdx == 2          \* longest wavelength index list passed explicitly

\* wavelength_index_vec: None (the default) or a sequence of 0-based indices
Omitted == [given |-> FALSE, idx |-> <<>>]

Given(s) == [given |-> TRUE, idx |-> s]

\* np.arange(0, n)
Arange(n) == [i \in 1..n |-> i - 1]

\* PlusOne with the indices left 0-based
PlusOne_zeroBased(s) == s

\* wavelength_index_vec + 1 (line 231)
PlusOne(s) == [i \in 1..Len(s) |-> s[i] + 1]

\* EmptyIndices with the short circuit never taken
EmptyIndices_never(w) == FALSE

\* len(wavelength_index_vec) == 0 (line 216)
EmptyIndices(w) == Len(w.idx) = 0

\* FdtdGiven with the assertion always passing
FdtdGiven_unchecked(fdtd) == TRUE

\* fdtd != None (line 229)
FdtdGiven(fdtd) == fdtd # "None"

\* a[:, :, :, :, :] needs an array of at least five axes (IndexError otherwise)
Sliceable(a) == Rank(a) >= 5

\* shape of the tensor farfieldexact3d returns for the destination grid dest and the
\* 1-based index list idx: the wavelength axis is collapsed for a single wavelength
Farfieldexact3d(dest, idx) ==
    IF Len(idx) = 1 THEN <<dest[1], dest[2], dest[3], 3>>
    ELSE <<dest[1], dest[2], dest[3], 3, Len(idx)>>

\* Normalize with the simulator's tensor returned as it is
Normalize_asIs(shape, idx) == shape

\* line 232: far_field if len(wavelength_index_vec) > 1
\*           else np.reshape(far_field, (*far_field.shape, 1))
Normalize(shape, idx) == IF Len(idx) > 1 THEN shape ELSE Append(shape, 1)

Raised(err) ==
    [outcome |-> "raised", err |-> err, kind |-> "none", shape |-> <<>>,
     container |-> [k \in Keys |-> Unset], calls |-> <<>>]

ReturnedTensor(shape, calls) ==
    [outcome |-> "returned", err |-> "none", kind |-> "tensor", shape |-> shape,
     container |-> [k \in Keys |-> Unset], calls |-> calls]

ReturnedField(c) ==
    [outcome |-> "returned", err |-> "none", kind |-> "em_field", shape |-> <<>>,
     container |-> Values(c.heap, c.field), calls |-> <<>>]

\* fieldPropagationLumapi(field, dest_x_vec, dest_y_vec, dest_z_vec,
\*                        wavelength_index_vec, index, fdtd)
\* h, f: the heap and the em_field passed; dest: the lengths of the three dest vectors
fieldPropagationLumapi(h, f, dest, w, fdtd) ==
    IF ~w.given /\ ~HasLen(h[Em_getWavelength(f)]) THEN Raised("TypeError")
    ELSE IF w.given /\ EmptyIndices(w)
         THEN ReturnedField(Em_init(h, [k \in Keys |-> None]))
    ELSE LET idx == IF w.given THEN w.idx ELSE Arange(PyLen(h[Em_getWavelength(f)]))
             fld == Em_init(h, f)
         IN  IF ~Sliceable(h[Em_getE(f)]) \/ ~Sliceable(h[Em_getH(f)])
             THEN Raised("IndexError")
             ELSE IF ~FdtdGiven(fdtd) THEN Raised(PreconditionError)
             ELSE IF fdtd = "None" THEN Raised("AttributeError")
             ELSE IF Em_toFdtdDataset(Values(fld.heap, fld.field)).err # "none"
                  THEN Raised(Em_toFdtdDataset(Values(fld.heap, fld.field)).err)
             ELSE ReturnedTensor(Normalize(Farfieldexact3d(dest, PlusOne(idx)), idx),
                                 << PlusOne(idx) >>)

-----------------------------------------------------------------------------
(* One call of fieldPropagationLumapi on a container built by em_field(...). *)

\* index lists of length n over the indices 0 .. MaxLen - 1
IndexLists(n) == [1..n -> 0..(MaxLen - 1)]

DestArgs == {<<a, b, 1>> : a \in 1..MaxLen, b \in 1..MaxLen}

FdtdArgs == {"None", "fdtd"}

Propagate(w) ==
    /\ prop.phase = "idle"
    /\ \E dest \in DestArgs, fdtd \in FdtdArgs :
          prop' = [phase |-> "done", dest |-> dest, w |-> w, fdtd |-> fdtd,
                   out |-> fieldPropagationLumapi(heap, field, dest, w, fdtd)]
    /\ UNCHANGED <<ds, dsOut, heap, field, emOut, integ, res>>

PropagateAll == Propagate(Omitted)

PropagateNone == Propagate(Given(<<>>))

PropagateSome == \E n \in 1..MaxIdx : \E s \in IndexLists(n) : Propagate(Given(s))

InitProp ==
    /\ \E args \in [Keys -> {None} \cup CallerRefs] :
          /\ \A k \in Keys : args[k] \in ArgsOf(k)
          /\ \A k \in {"y_vec", "z_vec"} : args[k] \in {None, Ref("caller", "axis", 1)}
          /\ Constructed(args)
    /\ NoDataset /\ NoPropagation /\ NoIntegration /\ NoResources

NextProp ==
    \/ PropagateAll
    \/ PropagateNone
    \/ PropagateSome

SpecProp == InitProp /\ [][NextProp]_vars

-----------------------------------------------------------------------------
(* MetaTool.integrate, on integer grids and integer field values.          *)

MaxN == 3            \* most grid points along an axis
MaxStep == 2         \* largest grid spacing
MaxOff == 1          \* the grids start at -MaxOff .. 0
MaxAbs == 1          \* the constant field takes values in -MaxAbs .. MaxAbs
MaxRadius == 2       \* largest finite radius

\* radius: np.inf (the default) or a finite number
Inf == [inf |-> TRUE, r |-> 0]

Finite(r) == [inf |-> FALSE, r |-> r]

\* the index pairs (i, j) the comprehensions of lines 200-204 range over (1-based)
Cells(x_vec, y_vec) ==
    {<<i, j>> : i \in 1..(Len(x_vec) - 1), j \in 1..(Len(y_vec) - 1)}

\* InRadius with the boundary of the disc left out
InRadius_strict(x, y, radius) == x * x + y * y < radius * radius

\* the filter of line 204
InRadius(x, y, radius) == x * x + y * y <= radius * radius

\* the term of the sum for cell (i, j)
Term(mat, x_vec, y_vec, c) ==
    mat[c[1]][c[2]] * (x_vec[c[1] + 1] - x_vec[c[1]]) * (y_vec[c[2] + 1] - y_vec[c[2]])

RECURSIVE NpSum(_, _, _, _)
\* np.sum of the terms of the cells in S
NpSum(mat, x_vec, y_vec, S) ==
    IF S = {} THEN 0
    ELSE LET c == CHOOSE c \in S : TRUE
         IN  Term(mat, x_vec, y_vec, c) + NpSum(mat, x_vec, y_vec, S \ {c})

\* integrate(mat, x_vec, y_vec, radius)
integrate(mat, x_vec, y_vec, radius) ==
    IF ~(Len(mat) = Len(x_vec) /\ \A i \in 1..Len(mat) : Len(mat[i]) = Len(y_vec))
    THEN [err |-> "AssertionError: dimension", value |-> 0]
    ELSE IF radius = Inf
         THEN [err |-> "none", value |-> NpSum(mat, x_vec, y_vec, Cells(x_vec, y_vec))]
    ELSE [err |-> "none",
          value |-> NpSum(mat, x_vec, y_vec,
                          {c \in Cells(x_vec, y_vec) :
                              InRadius(x_vec[c[1]], y_vec[c[2]], radius.r)})]

\* a grid of n points starting at x0 with spacing h
Grid(x0, h, n) == [i \in 1..n |-> x0 + (i - 1) * h]

\* the constant field c on an nx by ny grid
Constant(c, nx, ny) == [i \in 1..nx |-> [j \in 1..ny |-> c]]

IntegFrame == UNCHANGED <<ds, dsOut, heap, field, emOut, prop, res>>

\* the caller picks a constant field, a uniform grid and a finite radius
IntegChoose ==
    /\ integ.phase = "idle"
    /\ \E c \in (-MaxAbs)..MaxAbs, nx, ny \in 1..MaxN, mx \in 1..MaxN,
          x0, y0 \in (-MaxOff)..0, hx, hy \in 1..MaxStep, r \in 0..MaxRadius :
          /\ mx \in {nx, nx + 1}
          /\ integ' = [phase |-> "chosen", c |-> c, mat |-> Constant(c, mx, ny),
                       x_vec |-> Grid(x0, hx, nx), y_vec |-> Grid(y0, hy, ny),
                       radius |-> Finite(r)]
    /\ IntegFrame

\* integrate(mat, x_vec, y_vec) and integrate(mat, x_vec, y_vec, radius)
IntegCall ==
    /\ integ.phase = "chosen"
    /\ integ' = [phase |-> "done", c |-> integ.c, mat |-> integ.mat,
                 x_vec |-> integ.x_vec, y_vec |-> integ.y_vec, radius |-> integ.radius,
                 full |-> integrate(integ.mat, integ.x_vec, integ.y_vec, Inf),
                 masked |-> integrate(integ.mat, integ.x_vec, integ.y_vec, integ.radius)]
    /\ IntegFrame

NextInteg ==
    \/ IntegChoose
    \/ IntegCall

-----------------------------------------------------------------------------
(* MetaTool.setResources.  The simulator keeps a table of resources,       *)
(* addressed by 1-based position: deleteresource raises when the position  *)
(* does not exist, addresource appends a resource with default settings.   *)
(* Every call of the simulator's API is one step.                          *)

MaxJobs == 2         \* largest parallel_job_number
MaxOld == 3          \* most resources existing before the call

Settings == <<"name", "processes", "threads", "capacity", "Job launching preset">>

\* a resource: who created it, and for each setting who wrote it last
Resource(origin, by) == [origin |-> origin, set |-> [p \in 1..Len(Settings) |-> by]]

\* the table before the call: k resources configured by somebody else
OldTable(k) == [j \in 1..k |-> Resource(<<"old", j>>, <<"old", j>>)]

Exists(table, pos) == pos \in 1..Len(table)

\* fdtd.deleteresource("FDTD", pos)
Deleteresource(table, pos) ==
    [j \in 1..(Len(table) - 1) |-> IF j < pos THEN table[j] ELSE table[j + 1]]

\* fdtd.addresource("FDTD"), for the i-th resource this call adds
Addresource(table, i) == Append(table, Resource(<<"new", i>>, <<"default", 0>>))

\* fdtd.setresource("FDTD", pos, Settings[p], value), value given by the i-th iteration
Setresource(table, pos, p, i) == [table EXCEPT ![pos].set[p] = <<"new", i>>]

\* the position lines 67-71 address in iteration i (0-based, as in range(...))
Position(i) == i + 2

ResFrame == UNCHANGED <<ds, dsOut, heap, field, emOut, prop, integ>>

\* setResources(fdtd, parallel_job_number, ..., clear, prefix) is entered
ResEnter ==
    /\ res.pc = "idle"
    /\ \E k \in 1..MaxOld, n \in 1..MaxJobs, clear \in BOOLEAN :
          res' = [pc |-> IF clear THEN "clear" ELSE "add", table |-> OldTable(k),
                  k |-> k, n |-> n, clear |-> clear, i |-> 0, p |-> 0]
    /\ ResFrame

\* lines 58-62: delete position 2 until the simulator raises
ResClear ==
    /\ res.pc = "clear"
    /\ IF Exists(res.table, 2)
       THEN res' = [res EXCEPT !.table = Deleteresource(res.table, 2)]
       ELSE res' = [res EXCEPT !.pc = "add"]
    /\ ResFrame

\* line 66, or the end of the loop of line 65
ResAdd ==
    /\ res.pc = "add"
    /\ IF res.i < res.n
       THEN res' = [res EXCEPT !.table = Addresource(res.table, res.i + 1),
                               !.pc = "set", !.p = 1]
       ELSE res' = [res EXCEPT !.pc = IF res.clear THEN "last" ELSE "done"]
    /\ ResFrame

\* lines 67-71, one setresource call at a time
ResSet ==
    /\ res.pc = "set"
    /\ IF ~Exists(res.table, Position(res.i))
       THEN res' = [res EXCEPT !.pc = "raised"]
       ELSE res' = [res EXCEPT
                      !.table = Setresource(res.table, Position(res.i), res.p, res.i + 1),
                      !.p = IF res.p < Len(Settings) THEN res.p + 1 ELSE 0,
                      !.i = IF res.p < Len(Settings) THEN res.i ELSE res.i + 1,
                      !.pc = IF res.p < Len(Settings) THEN "set" ELSE "add"]
    /\ ResFrame

\* line 75
ResLast ==
    /\ res.pc = "last"
    /\ IF Exists(res.table, 1)
       THEN res' = [res EXCEPT !.table = Deleteresource(res.table, 1), !.pc = "done"]
       ELSE res' = [res EXCEPT !.pc = "raised"]
    /\ ResFrame

NextRes ==
    \/ ResEnter
    \/ ResClear
    \/ ResAdd
    \/ ResSet
    \/ ResLast

-----------------------------------------------------------------------------

Init ==
    /\ ds = Ds_init
    /\ dsOut = [op |-> "__init__", err |-> "none"]
    /\ Constructed([k \in Keys |-> None])
    /\ NoPropagation /\ NoIntegration /\ NoResources

NextDataset ==
    \/ DsNew
    \/ DsSetWavelength
    \/ DsSetRegion
    \/ DsSetX
    \/ DsSetY
    \/ DsSetZ
    \/ DsSetE
    \/ DsSetH

SpecDataset == Init /\ [][NextDataset]_vars

SpecInteg == Init /\ [][NextInteg]_vars

SpecRes == Init /\ [][NextRes]_vars

-----------------------------------------------------------------------------
\* number of occurrences of the string s in a sequence of list elements
Count(s, lst) == Cardinality({i \in 1..Len(lst) : lst[i] = PyStr(s)})

(* C1: after any sequence of setWavelength, setE and setH calls every name *)
(* occurs at most once in the declared parameter list and at most once in  *)
(* the declared attribute list.                                            *)
C1_NamesAtMostOnce ==
    /\ \A n \in {"lambda", "f"} : Count(n, Ds_getDataset(ds).parameters[1].items) <= 1
    /\ \A n \in {"E", "H"} : Count(n, Ds_getDataset(ds).attributes) <= 1

-----------------------------------------------------------------------------
(* Claims about em_field.                                                  *)

\* the axes stored in the container all have a length
AxesSized == \A k \in AxisKeys : HasLen(heap[field[k]])

\* (Lx, Ly, Lz, Lw, 3) for the axes stored in the container
FieldShape ==
    ExpectedShape(heap[Em_getX(field)], heap[Em_getY(field)], heap[Em_getZ(field)],
                  heap[Em_getWavelength(field)])

TensorSetters == {"setE", "setH"}

StoredBy(op) == IF op = "setE" THEN Em_getE(field) ELSE Em_getH(field)

C2_WitnessReported ==
    /\ emOut.op = "toFdtdDataset"
    /\ AxesSized
    /\ emOut.err = ShapeMismatch

\* C3: after setRegion(x, y, z) the three spatial axes are stored as given:
\* getX() = x, getY() = y and getZ() = z.
C3_SetRegionStoresAxes ==
    emOut.op = "setRegion" =>
        /\ Em_getX(field) = emOut.args[1]
        /\ Em_getY(field) = emOut.args[2]
        /\ Em_getZ(field) = emOut.args[3]

\* C7: the container owns copies of the arrays it is given: an in-place
\* modification of a caller's array does not change the value any getter returns
\* (no stored array is an alias of a caller-held array).
C7_NoAliasing ==
    emOut.op = "modify" => Values(heap, field) = emOut.before

-----------------------------------------------------------------------------
(* Claims about fieldPropagationLumapi.                                    *)

Called == prop.phase = "done"

NotEmptyList == ~(prop.w.given /\ Len(prop.w.idx) = 0)

\* the wavelengths asked for: the list given, or all those of the field
Requested ==
    IF prop.w.given THEN prop.w.idx ELSE Arange(PyLen(heap[Em_getWavelength(field)]))

\* the container passes the checks of toFdtdDataset
WellFormed ==
    /\ AxesSized
    /\ heap[Em_getE(field)].shape = FieldShape
    /\ heap[Em_getH(field)].shape = FieldShape

\* C4 as stated: whenever fdtd is None, whatever wavelength_indices is (omitted,
\* empty or non-empty), the call fails with the precondition assertion and never
\* returns a result.  Stated here for the well-formed fields only.
C4_AbsentAlwaysFails ==
    (Called /\ prop.fdtd = "None" /\ WellFormed) =>
        (prop.out.outcome = "raised" /\ prop.out.err = PreconditionError)

\* C4 amended: when fdtd is None and wavelength_indices is omitted or a non-empty
\* list, the call raises and the simulator is never contacted; the exception is the
\* assertion "FDTD must be given" whenever the field's E and H tensors have five
\* axes (and, with indices omitted, its wavelength axis has a length).  When
\* wavelength_indices is an empty sequence the call returns an empty em_field
\* even though fdtd is None.
C4_AbsentFailsUnlessEmpty ==
    (Called /\ prop.fdtd = "None") =>
        /\ NotEmptyList =>
              /\ prop.out.outcome = "raised"
              /\ prop.out.calls = <<>>
              /\ (/\ Sliceable(heap[Em_getE(field)])
                  /\ Sliceable(heap[Em_getH(field)])
                  /\ (prop.w.given \/ HasLen(heap[Em_getWavelength(field)])))
                    => prop.out.err = PreconditionError
        /\ ~NotEmptyList =>
              /\ prop.out.outcome = "returned"
              /\ prop.out.kind = "em_field"

\* fdtd absent, a non-empty index list, a field with five-axis tensors: the
\* precondition assertion has been raised
C4_Witness ==
    /\ Called /\ prop.fdtd = "None" /\ prop.w.given /\ Len(prop.w.idx) > 0
    /\ Sliceable(heap[Em_getE(field)]) /\ Sliceable(heap[Em_getH(field)])
    /\ prop.out.err = PreconditionError

C6_UniformShape ==
    (Called /\ prop.fdtd = "fdtd" /\ NotEmptyList /\ prop.out.outcome = "returned") =>
        /\ prop.out.kind = "tensor"
        /\ Len(Requested) >= 1
        /\ prop.out.shape = <<prop.dest[1], prop.dest[2], prop.dest[3], 3, Len(Requested)>>

\* a single wavelength was requested and a tensor was returned
C6_Witness ==
    /\ Called /\ prop.fdtd = "fdtd" /\ prop.out.kind = "tensor"
    /\ Len(Requested) = 1
    /\ prop.out.shape[5] = 1

\* several wavelengths were requested and a tensor was returned
C6_WitnessMany ==
    /\ Called /\ prop.fdtd = "fdtd" /\ prop.out.kind = "tensor"
    /\ ~prop.w.given
    /\ Len(Requested) > 1

\* the field's axes are 1-D arrays and its tensors have five axes
Plausible ==
    /\ AxesSized
    /\ Sliceable(heap[Em_getE(field)])
    /\ Sliceable(heap[Em_getH(field)])

-----------------------------------------------------------------------------
(* Claims about integrate.                                                 *)

Integrated == integ.phase = "done" /\ integ.full.err = "none"

\* every cell's left-endpoint coordinates lie within the disc x^2 + y^2 <= radius^2
AllCellsInDisc ==
    \A i \in 1..(Len(integ.x_vec) - 1), j \in 1..(Len(integ.y_vec) - 1) :
        integ.x_vec[i] * integ.x_vec[i] + integ.y_vec[j] * integ.y_vec[j]
            <= integ.radius.r * integ.radius.r

\* the radius is smaller than the grid's extent: some grid point lies outside the disc
RadiusInsideGrid ==
    \E i \in 1..Len(integ.x_vec), j \in 1..Len(integ.y_vec) :
        integ.x_vec[i] * integ.x_vec[i] + integ.y_vec[j] * integ.y_vec[j]
            > integ.radius.r * integ.radius.r

\* C9 as stated: for every constant value, a finite radius smaller than the grid's
\* extent strictly reduces the integral, and leaves it unchanged only when every
\* cell's left endpoint lies within the disc.
C9_MaskReduces ==
    (Integrated /\ RadiusInsideGrid) =>
        \/ integ.masked.value < integ.full.value
        \/ (integ.masked.value = integ.full.value /\ AllCellsInDisc)

\* C9 amended: for every positive constant value the masked integral is at most
\* the unmasked one, strictly smaller unless every cell's left endpoint lies within
\* the disc, in which case the two are equal; a zero field gives 0 for both and a
\* negative constant gives a masked integral greater than or equal to the unmasked.
C9_MaskReducesPositive ==
    Integrated =>
        /\ integ.c > 0 =>
              /\ integ.masked.value <= integ.full.value
              /\ (integ.masked.value = integ.full.value <=> AllCellsInDisc)
        /\ integ.c = 0 => (integ.masked.value = 0 /\ integ.full.value = 0)
        /\ integ.c < 0 =>
              /\ integ.masked.value >= integ.full.value
              /\ (integ.masked.value = integ.full.value <=> AllCellsInDisc)

\* a positive field whose masked integral is strictly smaller but not zero
C9_Witness ==
    /\ Integrated /\ integ.c > 0
    /\ 0 < integ.masked.value /\ integ.masked.value < integ.full.value

-----------------------------------------------------------------------------
(* Claims about setResources.                                              *)

Returned == res.pc = "done"

\* the positions of the table holding the resource created as origin
At(origin) == {j \in 1..Len(res.table) : res.table[j].origin = origin}

\* C10: the settings written by the call land exactly on the n resources it added
\* (the i-th one is named after i), no resource that existed before is renamed or
\* reconfigured; with clear the old resources are all removed and exactly the n new
\* ones remain, without clear the old ones remain with their settings untouched.
C10_SettingsLandOnNew ==
    Returned =>
        /\ \A i \in 1..res.n :
              /\ At(<<"new", i>>) # {}
              /\ \A j \in At(<<"new", i>>), p \in 1..Len(Settings) :
                    res.table[j].set[p] = <<"new", i>>
        /\ \A j \in 1..Len(res.table) :
              res.table[j].origin[1] = "old" =>
                  \A p \in 1..Len(Settings) : res.table[j].set[p] = res.table[j].origin
        /\ res.clear => Len(res.table) = res.n
        /\ res.clear => \A j \in 1..Len(res.table) : res.table[j].origin[1] = "new"
        /\ ~res.clear => \A o \in 1..res.k : At(<<"old", o>>) # {}

====
